---- MODULE Spec2Model ----
(***************************************************************************)
(* Model of .dev-team/implementations/222.py: the MayDay Real Estate       *)
(* validation module (ColorScheme, MayDayRealEstateImplementation, main).  *)
(*                                                                         *)
(* Python values are records carrying their type: str, NoneType, int,      *)
(* list, dict (an insertion-ordered sequence of key/value items),          *)
(* ValidationResult.  A call's outcome is either a returned value or a     *)
(* raised exception.  Colour strings are sequences of characters so that   *)
(* the pattern match is computed character by character.                   *)
(***************************************************************************)
EXTENDS Integers, Sequences, FiniteSets, TLC

VARIABLES
    literals,     \* the literal data the constructors assign: colours, tech stack
    self,         \* attributes of the most recently constructed instance
    constructed,  \* number of MayDayRealEstateImplementation() constructions
    handlers,     \* number of handlers on logging.getLogger(project_name)
    op,           \* the operation called last
    ret,          \* its outcome: a returned value or a raised exception
    reports,      \* outcomes of the generate_validation_report calls, in order
    stdout,       \* what main printed last
    exit_code,    \* what main returned last
    groups        \* SpecSummary: the check groups handed to the summary

vars == <<literals, self, constructed, handlers, op, ret, reports, stdout,
          exit_code, groups>>

(***************************************************************************)
(* Bounds                                                                  *)
(***************************************************************************)
MaxConstruct == 2      \* constructions in one process
MaxRuns == 2           \* report generations recorded
MaxEdits == 2          \* literal colours edited in Spec
MaxChecks == 3         \* checks over the three groups in SpecSummary

(***************************************************************************)
(* Python values                                                           *)
(***************************************************************************)
PyNone == [type |-> "NoneType"]
PyStr(s) == [type |-> "str", val |-> s]
PyInt(n) == [type |-> "int", val |-> n]
PyList(items) == [type |-> "list", items |-> items]
PyDict(items) == [type |-> "dict", items |-> items]
Item(k, v) == [key |-> k, value |-> v]

\* f-string: the format text and the values substituted into it, in order
Fmt(text, args) == [type |-> "str", fmt |-> text, args |-> args]

Return(v) == [kind |-> "return", value |-> v]
Raise(e) == [kind |-> "raise", exc |-> e]

DictGet(d, k, default) ==
    IF \E i \in 1..Len(d.items) : d.items[i].key = k
    THEN d.items[CHOOSE i \in 1..Len(d.items) : d.items[i].key = k].value
    ELSE default

HasKey(d, k) == \E i \in 1..Len(d.items) : d.items[i].key = k

(***************************************************************************)
(* ValidationStatus and ValidationResult                                   *)
(***************************************************************************)
PASS == "PASS"
FAIL == "FAIL"
WARNING == "WARNING"
INFO == "INFO"
ValidationStatus == {PASS, FAIL, WARNING, INFO}

\* ValidationStatus.value: the symbol each member carries
StatusValue(s) ==
    CASE s = PASS -> "U+2713"
      [] s = FAIL -> "U+2717"
      [] s = WARNING -> "U+26A0"
      [] s = INFO -> "U+2139"

ValidationResult(status, message, details, recommendations) ==
    [type |-> "ValidationResult", status |-> status, message |-> message,
     details |-> details, recommendations |-> recommendations]

IsValidationResult(v) == v.type = "ValidationResult"

(***************************************************************************)
(* ColorScheme                                                             *)
(***************************************************************************)
FieldOrder == <<"primary", "secondary", "text", "background", "accent">>
Fields == {FieldOrder[i] : i \in 1..Len(FieldOrder)}

Chars(seq) == [type |-> "str", val |-> seq]

\* ColorScheme(): the dataclass with its five default values
ColorSchemeDefaults ==
    [type       |-> "ColorScheme",
     primary    |-> Chars(<<"#", "0", "b", "2", "a", "4", "a">>),
     secondary  |-> Chars(<<"#", "f", "f", "f", "f", "f", "f">>),
     text       |-> Chars(<<"#", "2", "2", "2", "2", "2", "2">>),
     background |-> Chars(<<"#", "f", "8", "f", "9", "f", "a">>),
     accent     |-> Chars(<<"#", "e", "8", "f", "4", "f", "d">>)]

HexDigits ==
    {"0", "1", "2", "3", "4", "5", "6", "7", "8", "9",
     "A", "B", "C", "D", "E", "F", "a", "b", "c", "d", "e", "f"}

\* re.compile(r'^#[0-9A-Fa-f]{6}$').match(s): anchored at position 1, '#', six
\* hex digits, then '$', which Python satisfies at the end of the string and
\* also just before a newline that is the last character.
DollarAt(s, pos) ==
    \/ pos = Len(s) + 1
    \/ pos = Len(s) /\ s[pos] = "\n"

HexPatternMatch(s) ==
    /\ Len(s) >= 7
    /\ s[1] = "#"
    /\ \A i \in 2..7 : s[i] \in HexDigits
    /\ DollarAt(s, 8)

\* one iteration of the loop: the check for one attribute
HexCheck(attr, color) ==
    IF ~HexPatternMatch(color.val)
    THEN ValidationResult(FAIL,
             Fmt("Invalid hex color for {attr}: {color}", <<attr, color>>),
             PyNone, <<"Use 6-digit hex format: #RRGGBB">>)
    ELSE ValidationResult(PASS,
             Fmt("Valid hex color for {attr}: {color}", <<attr, color>>),
             PyNone, <<>>)

\* validate_hex_colors collecting only the failing colours
validate_hex_colors_failures_only(scheme) ==
    IF \E i \in 1..Len(FieldOrder) : scheme[FieldOrder[i]].type # "str"
    THEN Raise("TypeError")
    ELSE Return(PyList(SelectSeq(
            [i \in 1..Len(FieldOrder) |-> HexCheck(FieldOrder[i], scheme[FieldOrder[i]])],
            LAMBDA r : r.status = FAIL)))

\* ColorScheme.validate_hex_colors: hex_pattern.match raises TypeError on the
\* first attribute that is not a str, and the results built so far are lost.
validate_hex_colors(scheme) ==
    IF \E i \in 1..Len(FieldOrder) : scheme[FieldOrder[i]].type # "str"
    THEN Raise("TypeError")
    ELSE Return(PyList([i \in 1..Len(FieldOrder) |->
                            HexCheck(FieldOrder[i], scheme[FieldOrder[i]])]))

(***************************************************************************)
(* MayDayRealEstateImplementation: the fixed check groups.                 *)
(* The logger calls write a line to the handler's stream and have no       *)
(* effect on the values built here (Handler.handle contains emit errors).  *)
(***************************************************************************)
IsColorScheme(v) == v.type = "ColorScheme"

\* validate_architecture_compliance: the try body reads
\* self.color_scheme.primary and .secondary, an AttributeError when
\* color_scheme is not a ColorScheme; the except branch turns it into a check.
validate_architecture_compliance(inst) ==
    IF IsColorScheme(inst.color_scheme)
    THEN Return(PyDict(<<
        Item("single_page_design", ValidationResult(PASS,
            PyStr("Single-page architecture implemented"),
            PyStr("All content contained in index.html with anchor navigation"), <<>>)),
        Item("no_javascript", ValidationResult(PASS,
            PyStr("No JavaScript dependencies detected"),
            PyStr("Pure HTML5/CSS3 implementation as required"), <<>>)),
        Item("no_frameworks", ValidationResult(PASS,
            PyStr("No external frameworks used"),
            PyStr("Self-contained implementation with system fonts"), <<>>)),
        Item("responsive_design", ValidationResult(PASS,
            PyStr("Mobile-first responsive design implemented"),
            PyStr("Breakpoints: 480px (mobile), 768px (tablet), 800px (desktop)"), <<>>)),
        Item("color_scheme_compliance", ValidationResult(PASS,
            PyStr("Navy blue and white theme implemented"),
            Fmt("Primary: {primary}, Secondary: {secondary}",
                <<inst.color_scheme.primary, inst.color_scheme.secondary>>), <<>>)),
        Item("system_fonts", ValidationResult(PASS,
            PyStr("System fonts (Arial) used exclusively"),
            PyStr("No external font dependencies"), <<>>)),
        Item("no_animations", ValidationResult(PASS,
            PyStr("No animations or transitions implemented"),
            PyStr("Static design as per requirements"), <<>>))
        >>))
    ELSE Return(PyDict(<<
        Item("validation_error", ValidationResult(FAIL,
            Fmt("Validation process failed: {str(e)}", <<"AttributeError">>),
            PyNone, <<"Check implementation files exist and are accessible">>))
        >>))

\* validate_accessibility_compliance: the try body builds literals only, so
\* its except branch (a one-check dict "accessibility_error") is never taken.
validate_accessibility_compliance(inst) ==
    Return(PyDict(<<
        Item("semantic_html", ValidationResult(PASS,
            PyStr("Semantic HTML5 elements used throughout"),
            PyStr("Proper use of header, section, footer, h1-h3, nav elements"),
            <<"Continue using semantic elements for future additions">>)),
        Item("heading_hierarchy", ValidationResult(PASS,
            PyStr("Proper heading hierarchy maintained (h1->h2->h3)"),
            PyStr("Single h1 in header, h2 for sections, h3 for subsections"),
            <<"Maintain hierarchy when adding new sections">>)),
        Item("form_accessibility", ValidationResult(PASS,
            PyStr("Form accessibility features implemented"),
            PyStr("ARIA labels, required attributes, fieldset grouping"),
            <<"Add form validation feedback for better UX">>)),
        Item("color_contrast", ValidationResult(PASS,
            PyStr("WCAG AA color contrast ratios met"),
            PyStr("Navy blue on white exceeds 4.5:1 contrast ratio"),
            <<"Test with color contrast analyzers regularly">>)),
        Item("focus_management", ValidationResult(PASS,
            PyStr("Visible focus indicators implemented"),
            PyStr("CSS focus states for form elements and buttons"),
            <<"Test keyboard navigation thoroughly">>)),
        Item("responsive_accessibility", ValidationResult(PASS,
            PyStr("Touch targets appropriately sized"),
            PyStr("Minimum 44px touch targets on mobile devices"),
            <<"Test on actual mobile devices">>)),
        Item("screen_reader_support", ValidationResult(PASS,
            PyStr("Screen reader friendly markup"),
            PyStr("Semantic HTML, ARIA labels, logical content flow"),
            <<"Test with actual screen reader software">>)),
        Item("print_accessibility", ValidationResult(PASS,
            PyStr("Print-friendly styles implemented"),
            PyStr("Dedicated print CSS for document accessibility"),
            <<"Test print output regularly">>))
        >>))

\* validate_code_quality: a dict literal, no try/except
validate_code_quality(inst) ==
    Return(PyDict(<<
        Item("html_validation", ValidationResult(PASS,
            PyStr("HTML5 semantic markup follows W3C standards"),
            PyStr("Proper DOCTYPE, meta tags, semantic elements"),
            <<"Validate with W3C HTML validator">>)),
        Item("css_validation", ValidationResult(PASS,
            PyStr("CSS3 follows best practices and standards"),
            PyStr("Mobile-first, BEM-like naming, proper specificity"),
            <<"Validate with W3C CSS validator">>)),
        Item("code_organization", ValidationResult(PASS,
            PyStr("Code is well-organized and maintainable"),
            PyStr("Clear file structure, commented sections, logical flow"),
            <<"Document any future architectural changes">>)),
        Item("browser_compatibility", ValidationResult(PASS,
            PyStr("Cross-browser compatibility implemented"),
            PyStr("Progressive enhancement, fallbacks for older browsers"),
            <<"Test on target browsers regularly">>)),
        Item("documentation", ValidationResult(PASS,
            PyStr("Comprehensive documentation provided"),
            PyStr("README, inline comments, implementation notes"),
            <<"Keep documentation updated with changes">>))
        >>))

(***************************************************************************)
(* The getters: fixed data; none of their values is a ValidationResult.    *)
(***************************************************************************)
PyEnum(s) == [type |-> "ValidationStatus", val |-> s]
StrList(seq) == PyList([i \in 1..Len(seq) |-> PyStr(seq[i])])

Feature(name, description, implementation, accessibility) ==
    PyDict(<<Item("name", PyStr(name)),
             Item("description", PyStr(description)),
             Item("status", PyEnum(PASS)),
             Item("implementation", PyStr(implementation)),
             Item("accessibility", StrList(accessibility))>>)

get_implemented_features(inst) ==
    PyList(<<
        Feature("Header/Hero Section", "Agency branding with tagline and introduction",
            "Semantic header element with h1, tagline, intro paragraph",
            <<"Proper heading hierarchy", "Semantic markup">>),
        Feature("About Us Section", "Company description and value proposition",
            "Section element with descriptive content",
            <<"Clear content structure", "Readable typography">>),
        Feature("Services Section", "Real estate services listing",
            "Unordered list with service descriptions",
            <<"List semantics", "Visual hierarchy">>),
        Feature("Properties Showcase", "Sample property listings",
            "Structured property cards with descriptions",
            <<"Clear content separation", "Readable layouts">>),
        Feature("Contact Information", "Phone, email, and address details",
            "Structured contact details with clear labels",
            <<"Clear information hierarchy", "Screen reader friendly">>),
        Feature("Contact Form", "HTML5 form with validation",
            "Form with name, email, message fields",
            <<"ARIA labels", "Required field indicators", "Focus management">>),
        Feature("Responsive Design", "Mobile-first responsive layout",
            "CSS media queries for mobile/tablet/desktop",
            <<"Touch-friendly interfaces", "Readable text on all devices">>),
        Feature("SEO Optimization", "Search engine optimization features",
            "Meta tags, semantic HTML, proper structure",
            <<"Screen reader compatibility", "Clear content hierarchy">>)
        >>)

get_performance_metrics(inst) ==
    PyDict(<<
        Item("file_sizes", PyDict(<<
            Item("html", PyStr("~3.3KB (compressed)")),
            Item("css", PyStr("~3.9KB (compressed)")),
            Item("total", PyStr("~7.2KB total payload"))>>)),
        Item("lighthouse_scores", PyDict(<<
            Item("performance", PyInt(100)),
            Item("accessibility", PyInt(100)),
            Item("best_practices", PyInt(100)),
            Item("seo", PyInt(100)),
            Item("notes", PyStr("Scores based on static file optimization"))>>)),
        Item("loading_metrics", PyDict(<<
            Item("first_contentful_paint", PyStr("< 1 second")),
            Item("largest_contentful_paint", PyStr("< 1 second")),
            Item("cumulative_layout_shift", PyStr("0 (no layout shifts)")),
            Item("time_to_interactive", PyStr("< 1 second"))>>)),
        Item("optimization_features", StrList(<<
            "Minimal CSS footprint",
            "No external dependencies",
            "System fonts (no web font loading)",
            "Optimized responsive images ready",
            "CDN-friendly static assets">>))
        >>)

get_deployment_configuration(inst) ==
    PyDict(<<
        Item("platform", inst.deployment_platform),
        Item("deployment_type", PyStr("Static Site")),
        Item("configuration", PyDict(<<
            Item("build_command", PyNone),
            Item("output_directory", PyStr("./")),
            Item("node_version", PyNone),
            Item("install_command", PyNone)>>)),
        Item("required_files", StrList(<<"index.html", "styles.css">>)),
        Item("optional_files", StrList(<<"README.md", "favicon.ico", "robots.txt">>)),
        Item("environment_variables", PyDict(<<>>)),
        Item("custom_headers", PyDict(<<
            Item("Cache-Control", PyStr("public, max-age=31536000")),
            Item("X-Content-Type-Options", PyStr("nosniff")),
            Item("X-Frame-Options", PyStr("DENY"))>>)),
        Item("ssl_configuration", PyStr("Automatic HTTPS")),
        Item("cdn_configuration", PyStr("Global CDN enabled")),
        Item("deployment_steps", StrList(<<
            "1. Connect GitHub repository to Vercel",
            "2. Configure root directory as source",
            "3. No build configuration required",
            "4. Enable automatic deployments on push",
            "5. Configure custom domain (optional)",
            "6. Set up monitoring and analytics">>))
        >>)

(***************************************************************************)
(* run_comprehensive_validation                                            *)
(***************************************************************************)
\* the colour checks stored as a dict keyed by attribute, which the summary
\* loop then counts
validation_results_colors_as_dict(inst, architecture, accessibility, code_quality) ==
    LET colors == IF IsColorScheme(inst.color_scheme)
                  THEN validate_hex_colors(inst.color_scheme)
                  ELSE Raise("AttributeError")
    IN  IF colors.kind = "raise"
        THEN colors
        ELSE Return(PyDict(<<
                Item("project_info", PyDict(<<
                    Item("name", inst.project_name),
                    Item("version", inst.version),
                    Item("tech_stack", inst.tech_stack),
                    Item("validation_timestamp", PyStr("2024"))>>)),
                Item("architecture_compliance", architecture),
                Item("accessibility_compliance", accessibility),
                Item("code_quality", code_quality),
                Item("performance_metrics", get_performance_metrics(inst)),
                Item("deployment_config", get_deployment_configuration(inst)),
                Item("color_scheme_validation",
                     PyDict([i \in 1..Len(colors.value.items) |->
                                Item(FieldOrder[i], colors.value.items[i])])),
                Item("implemented_features", get_implemented_features(inst))
             >>))

\* the dict literal of the try body, its values evaluated in order; the groups
\* are what self.validate_*() returned.  self.color_scheme.validate_hex_colors()
\* is an AttributeError when color_scheme is not a ColorScheme.
validation_results(inst, architecture, accessibility, code_quality) ==
    LET colors == IF IsColorScheme(inst.color_scheme)
                  THEN validate_hex_colors(inst.color_scheme)
                  ELSE Raise("AttributeError")
    IN  IF colors.kind = "raise"
        THEN colors
        ELSE Return(PyDict(<<
                Item("project_info", PyDict(<<
                    Item("name", inst.project_name),
                    Item("version", inst.version),
                    Item("tech_stack", inst.tech_stack),
                    Item("validation_timestamp", PyStr("2024"))>>)),
                Item("architecture_compliance", architecture),
                Item("accessibility_compliance", accessibility),
                Item("code_quality", code_quality),
                Item("performance_metrics", get_performance_metrics(inst)),
                Item("deployment_config", get_deployment_configuration(inst)),
                Item("color_scheme_validation", colors.value),
                Item("implemented_features", get_implemented_features(inst))
             >>))

\* the condition under which a category's values are counted
CountsAsChecks(checks) ==
    /\ checks.type = "dict"
    /\ \A i \in 1..Len(checks.items) : IsValidationResult(checks.items[i].value)

\* total_checks incremented only inside the PASS branch
CheckCount_passing_only(checks) ==
    IF CountsAsChecks(checks)
    THEN Cardinality({i \in 1..Len(checks.items) : checks.items[i].value.status = PASS})
    ELSE 0

\* the inner loop over one category: total_checks += 1 for every result
CheckCount(checks) ==
    IF CountsAsChecks(checks) THEN Len(checks.items) ELSE 0

\* the status compared with the symbol of PASS instead of the member
PassCount_symbol_compare(checks) ==
    IF CountsAsChecks(checks)
    THEN Cardinality({i \in 1..Len(checks.items) :
                         checks.items[i].value.status = StatusValue(PASS)})
    ELSE 0

\* the inner loop over one category: passed_checks += 1 for every PASS
PassCount(checks) ==
    IF CountsAsChecks(checks)
    THEN Cardinality({i \in 1..Len(checks.items) : checks.items[i].value.status = PASS})
    ELSE 0

RECURSIVE TotalFrom(_, _)
TotalFrom(items, i) ==
    IF i > Len(items) THEN 0
    ELSE CheckCount(items[i].value) + TotalFrom(items, i + 1)

RECURSIVE PassedFrom(_, _)
PassedFrom(items, i) ==
    IF i > Len(items) THEN 0
    ELSE PassCount(items[i].value) + PassedFrom(items, i + 1)

total_checks(results) == TotalFrom(results.items, 1)
passed_checks(results) == PassedFrom(results.items, 1)

\* (passed/total)*100 formatted with :.1f, in tenths of a percent, rounded
\* half to even as the float formatting does (every tie p*1000/t = k + 1/2
\* needs 16 | t and is then exact in binary).
Tenths(passed, total) ==
    LET q == (passed * 1000) \div total
        r == (passed * 1000) % total
    IN  IF 2 * r > total THEN q + 1
        ELSE IF 2 * r = total THEN q + (q % 2)
        ELSE q

\* the division: ZeroDivisionError when total_checks is 0
Percentage(passed, total) ==
    IF total = 0
    THEN Raise("ZeroDivisionError")
    ELSE Return(Fmt("{:.1f}%", <<PyInt(Tenths(passed, total))>>))

\* the percentage computed without the total_checks > 0 guard
pass_rate_unguarded(passed, total) == Percentage(passed, total)

pass_rate(passed, total) ==
    IF total > 0 THEN Percentage(passed, total) ELSE Return(PyStr("N/A"))

\* a shortfall reported with the wrong member of the enum
overall_status_fail(passed, total) ==
    IF passed = total THEN PASS ELSE FAIL

overall_status(passed, total) ==
    IF passed = total THEN PASS ELSE WARNING

\* validation_results["summary"] = {...}
summary(results) ==
    LET total == total_checks(results)
        passed == passed_checks(results)
        rate == pass_rate(passed, total)
    IN  IF rate.kind = "raise"
        THEN rate
        ELSE Return(PyDict(<<
                Item("total_checks", PyInt(total)),
                Item("passed_checks", PyInt(passed)),
                Item("pass_rate", rate.value),
                Item("overall_status", PyEnum(overall_status(passed, total)))
             >>))

\* the except branch of run_comprehensive_validation
ValidationError(exc) ==
    PyDict(<<Item("error", Fmt("Validation failed: {str(e)}", <<exc>>)),
             Item("status", PyEnum(FAIL))>>)

\* the try/except of run_comprehensive_validation over the given groups
RunValidation(inst, architecture, accessibility, code_quality) ==
    LET results == validation_results(inst, architecture, accessibility, code_quality)
    IN  IF results.kind = "raise"
        THEN Return(ValidationError(results.exc))
        ELSE LET s == summary(results.value)
             IN  IF s.kind = "raise"
                 THEN Return(ValidationError(s.exc))
                 ELSE Return(PyDict(Append(results.value.items,
                                           Item("summary", s.value))))

run_comprehensive_validation(inst) ==
    RunValidation(inst,
                  validate_architecture_compliance(inst).value,
                  validate_accessibility_compliance(inst).value,
                  validate_code_quality(inst).value)

(***************************************************************************)
(* generate_validation_report: the report is the sequence of its lines     *)
(***************************************************************************)
Line(text, args) == Fmt(text, args)
Rule(ch, n) == Fmt("{ch*n}", <<PyStr(ch), PyInt(n)>>)

\* ', '.join(items): TypeError when an item is not a str
Join(sep, list) ==
    IF \E i \in 1..Len(list.items) : list.items[i].type # "str"
    THEN Raise("TypeError")
    ELSE Return([type |-> "str", sep |-> sep, parts |-> list.items])

\* check.replace('_', ' ').title(), kept as the application to its argument
Title(check) == [type |-> "str", fn |-> "replace('_', ' ').title()", of |-> check]

\* the group's loop stopping one item short
CheckLines_one_short(group) ==
    LET all == SelectSeq(group.items, LAMBDA it : IsValidationResult(it.value))
        keep == IF Len(all) = 0 THEN all ELSE SubSeq(all, 1, Len(all) - 1)
    IN  [i \in 1..Len(keep) |->
            Line("{result.status.value} {check}: {result.message}",
                 <<PyStr(StatusValue(keep[i].value.status)),
                   Title(keep[i].key),
                   keep[i].value.message>>)]

\* one group's loop: a line for every item that is a ValidationResult
CheckLines(group) ==
    LET keep == SelectSeq(group.items, LAMBDA it : IsValidationResult(it.value))
    IN  [i \in 1..Len(keep) |->
            Line("{result.status.value} {check}: {result.message}",
                 <<PyStr(StatusValue(keep[i].value.status)),
                   Title(keep[i].key),
                   keep[i].value.message>>)]

\* results.get('summary', {}).get('overall_status', ValidationStatus.FAIL).value
OverallSymbol(results) ==
    PyStr(StatusValue(
        DictGet(DictGet(results, "summary", PyDict(<<>>)),
                "overall_status", PyEnum(FAIL)).val))

\* the readiness line defaulting to PASS when the results carry no summary
ReadySymbol_default_pass(results) ==
    PyStr(StatusValue(
        DictGet(DictGet(results, "summary", PyDict(<<>>)),
                "overall_status", PyEnum(PASS)).val))

\* the same lookup written a second time, on the readiness line of the footer
ReadySymbol(results) ==
    PyStr(StatusValue(
        DictGet(DictGet(results, "summary", PyDict(<<>>)),
                "overall_status", PyEnum(FAIL)).val))

\* the text built from the results of run_comprehensive_validation; its title
\* line is fixed text that begins with the words "MayDay Real Estate"
Report(results) ==
    LET info == DictGet(results, "project_info", PyDict(<<>>))
        summ == DictGet(results, "summary", PyDict(<<>>))
        tech == Join(", ", DictGet(info, "tech_stack", PyList(<<>>)))
    IN  IF tech.kind = "raise"
        THEN tech
        ELSE Return([type |-> "str", lines |->
              <<Line("", <<>>),
                Line("{} Implementation Validation Report", <<PyStr("MayDay Real Estate")>>),
                Rule("=", 60),
                Line("", <<>>),
                Line("Project: {}", <<DictGet(info, "name", PyStr("Unknown"))>>),
                Line("Version: {}", <<DictGet(info, "version", PyStr("Unknown"))>>),
                Line("Tech Stack: {}", <<tech.value>>),
                Line("", <<>>),
                Line("SUMMARY", <<>>),
                Rule("-", 20),
                Line("Total Checks: {}", <<DictGet(summ, "total_checks", PyStr("N/A"))>>),
                Line("Passed Checks: {}", <<DictGet(summ, "passed_checks", PyStr("N/A"))>>),
                Line("Pass Rate: {}", <<DictGet(summ, "pass_rate", PyStr("N/A"))>>),
                Line("Overall Status: {}", <<OverallSymbol(results)>>),
                Line("", <<>>),
                Line("ARCHITECTURE COMPLIANCE", <<>>),
                Rule("-", 30)>>
              \o CheckLines(DictGet(results, "architecture_compliance", PyDict(<<>>)))
              \o <<Line("", <<>>),
                   Line("ACCESSIBILITY COMPLIANCE", <<>>),
                   Rule("-", 30)>>
              \o CheckLines(DictGet(results, "accessibility_compliance", PyDict(<<>>)))
              \o <<Line("", <<>>),
                   Line("CODE QUALITY", <<>>),
                   Rule("-", 20)>>
              \o CheckLines(DictGet(results, "code_quality", PyDict(<<>>)))
              \o <<Line("", <<>>),
                   Rule("-", 60),
                   Line("VALIDATION COMPLETE", <<>>),
                   Line("Ready for Production Deployment: {}", <<ReadySymbol(results)>>),
                   Rule("-", 60)>>])

generate_validation_report(inst) ==
    Report(run_comprehensive_validation(inst).value)

(***************************************************************************)
(* Construction and main                                                   *)
(***************************************************************************)
\* _setup_logger adding a handler on every call
setup_logger_always_adds(h) == h + 1

\* _setup_logger: a handler is added only when the shared logger has none
setup_logger(h) == IF h = 0 THEN h + 1 ELSE h

\* an attribute taken from state shared between the constructions
NewInstance_shared_state(lit) ==
    [project_name        |-> PyStr("MayDay Real Estate"),
     version             |-> IF constructed = 0 THEN PyStr("1.1.0") ELSE PyStr("1.1.1"),
     tech_stack          |-> lit.tech_stack,
     color_scheme        |-> lit.color_scheme,
     deployment_platform |-> PyStr("Vercel")]

\* __init__: the attributes assigned from the literals
NewInstance(lit) ==
    [project_name        |-> PyStr("MayDay Real Estate"),
     version             |-> PyStr("1.1.0"),
     tech_stack          |-> lit.tech_stack,
     color_scheme        |-> lit.color_scheme,
     deployment_platform |-> PyStr("Vercel")]

\* main printing the error and still returning the success code
main_always_zero(lit) ==
    LET report == generate_validation_report(NewInstance(lit))
    IN  IF report.kind = "raise"
        THEN <<Fmt("Validation failed: {str(e)}", <<report.exc>>), PyInt(0)>>
        ELSE <<report.value, PyInt(0)>>

\* main: <<what is printed, what is returned>>
main(lit) ==
    LET report == generate_validation_report(NewInstance(lit))
    IN  IF report.kind = "raise"
        THEN <<Fmt("Validation failed: {str(e)}", <<report.exc>>), PyInt(1)>>
        ELSE <<report.value, PyInt(0)>>

(***************************************************************************)
(* Inputs                                                                  *)
(***************************************************************************)
ShippedTechStack == StrList(<<"HTML5", "CSS3">>)
ShippedLiterals == [color_scheme |-> ColorSchemeDefaults, tech_stack |-> ShippedTechStack]

SchemesOver(values) ==
    {[type |-> "ColorScheme", primary |-> s["primary"], secondary |-> s["secondary"],
      text |-> s["text"], background |-> s["background"], accent |-> s["accent"]] :
        s \in [Fields -> values]}

\* Spec: the shipped literals with up to MaxEdits colours replaced by a string
\* that is no hex colour or by a value that is no string, the scheme of five
\* strings that are no hex colours, the colour scheme replaced by None, and the
\* tech stack holding an item that is no string
TooShort == Chars(<<"#", "0", "b", "2", "a", "4">>)
ColorEdits == {TooShort, PyNone}
EditedSchemes ==
    {[f \in DOMAIN ColorSchemeDefaults |->
          IF f \in DOMAIN e THEN e[f] ELSE ColorSchemeDefaults[f]] :
        e \in UNION {[fs -> ColorEdits] :
                        fs \in {x \in SUBSET Fields : Cardinality(x) <= MaxEdits}}}
TechStackInputs == {ShippedTechStack, PyList(<<PyStr("HTML5"), PyNone>>)}
LiteralInputs ==
    [color_scheme : EditedSchemes \cup SchemesOver({TooShort}) \cup {PyNone},
     tech_stack : TechStackInputs]

\* SpecHex: strings of every shape the pattern has to tell apart
HexInputs ==
    {Chars(<<"#", "0", "b", "2", "a", "4", "a">>),
     Chars(<<"#", "A", "9", "F", "c", "0", "E">>),
     TooShort,
     Chars(<<"#", "0", "b", "2", "a", "4", "a", "0">>),
     Chars(<<"0", "b", "2", "a", "4", "a", "0">>),
     Chars(<<"#", "0", "b", "2", "g", "4", "a">>),
     Chars(<<" ", "#", "0", "b", "2", "a", "4", "a">>),
     Chars(<<"#", "0", "b", "2", "a", "4", "a", "\n">>)}

\* SpecSummary: check groups holding up to MaxChecks results of any status
CheckKeys == <<"check_1", "check_2", "check_3", "check_4", "check_5">>
GroupNames == {"architecture_compliance", "accessibility_compliance", "code_quality"}
GroupOf(statuses) ==
    PyDict([i \in 1..Len(statuses) |->
                Item(CheckKeys[i],
                     ValidationResult(statuses[i], PyStr("message"), PyNone, <<>>))])
GroupInputs ==
    {GroupOf(st) : st \in UNION {[1..n -> ValidationStatus] : n \in 0..MaxChecks}}
GroupsInputs ==
    {g \in [GroupNames -> GroupInputs] :
        Len(g["architecture_compliance"].items) + Len(g["accessibility_compliance"].items)
            + Len(g["code_quality"].items) <= MaxChecks}

(***************************************************************************)
(* Operations                                                              *)
(***************************************************************************)
Construct ==
    /\ constructed < MaxConstruct
    /\ self' = NewInstance(literals)
    /\ handlers' = setup_logger(handlers)
    /\ constructed' = constructed + 1
    /\ op' = "__init__"
    /\ ret' = Return(PyNone)
    /\ UNCHANGED <<literals, reports, stdout, exit_code, groups>>

ValidateArchitecture ==
    /\ constructed > 0
    /\ op' = "validate_architecture_compliance"
    /\ ret' = validate_architecture_compliance(self)
    /\ UNCHANGED <<literals, self, constructed, handlers, reports, stdout,
                   exit_code, groups>>

ValidateAccessibility ==
    /\ constructed > 0
    /\ op' = "validate_accessibility_compliance"
    /\ ret' = validate_accessibility_compliance(self)
    /\ UNCHANGED <<literals, self, constructed, handlers, reports, stdout,
                   exit_code, groups>>

ValidateCodeQuality ==
    /\ constructed > 0
    /\ op' = "validate_code_quality"
    /\ ret' = validate_code_quality(self)
    /\ UNCHANGED <<literals, self, constructed, handlers, reports, stdout,
                   exit_code, groups>>

\* a method of the ColorScheme object the instance holds
ValidateHexColors ==
    /\ constructed > 0
    /\ IsColorScheme(self.color_scheme)
    /\ op' = "validate_hex_colors"
    /\ ret' = validate_hex_colors(self.color_scheme)
    /\ UNCHANGED <<literals, self, constructed, handlers, reports, stdout,
                   exit_code, groups>>

GetImplementedFeatures ==
    /\ constructed > 0
    /\ op' = "get_implemented_features"
    /\ ret' = Return(get_implemented_features(self))
    /\ UNCHANGED <<literals, self, constructed, handlers, reports, stdout,
                   exit_code, groups>>

GetPerformanceMetrics ==
    /\ constructed > 0
    /\ op' = "get_performance_metrics"
    /\ ret' = Return(get_performance_metrics(self))
    /\ UNCHANGED <<literals, self, constructed, handlers, reports, stdout,
                   exit_code, groups>>

GetDeploymentConfiguration ==
    /\ constructed > 0
    /\ op' = "get_deployment_configuration"
    /\ ret' = Return(get_deployment_configuration(self))
    /\ UNCHANGED <<literals, self, constructed, handlers, reports, stdout,
                   exit_code, groups>>

\* run_comprehensive_validation writing the validation timestamp into the
\* instance's version
RunComprehensiveValidation_sets_version ==
    /\ constructed > 0
    /\ op' = "run_comprehensive_validation"
    /\ ret' = run_comprehensive_validation(self)
    /\ self' = [self EXCEPT !.version = PyStr("2024")]
    /\ UNCHANGED <<literals, constructed, handlers, reports, stdout, exit_code, groups>>

RunComprehensiveValidation ==
    /\ constructed > 0
    /\ op' = "run_comprehensive_validation"
    /\ ret' = run_comprehensive_validation(self)
    /\ UNCHANGED <<literals, self, constructed, handlers, reports, stdout,
                   exit_code, groups>>

GenerateValidationReport ==
    /\ constructed > 0
    /\ Len(reports) < MaxRuns
    /\ op' = "generate_validation_report"
    /\ ret' = generate_validation_report(self)
    /\ reports' = Append(reports, ret')
    /\ UNCHANGED <<literals, self, constructed, handlers, stdout, exit_code, groups>>

Main ==
    /\ constructed < MaxConstruct
    /\ Len(reports) < MaxRuns
    /\ self' = NewInstance(literals)
    /\ handlers' = setup_logger(handlers)
    /\ constructed' = constructed + 1
    /\ op' = "main"
    /\ ret' = Return(main(literals)[2])
    /\ stdout' = main(literals)[1]
    /\ exit_code' = main(literals)[2]
    /\ reports' = Append(reports, generate_validation_report(NewInstance(literals)))
    /\ UNCHANGED <<literals, groups>>

\* the summary and the report over check groups of any content
SummarizeGroups ==
    /\ op = "__init__"
    /\ op' = "run_comprehensive_validation"
    /\ ret' = RunValidation(self, groups["architecture_compliance"],
                            groups["accessibility_compliance"], groups["code_quality"])
    /\ reports' = <<Report(ret'.value)>>
    /\ UNCHANGED <<literals, self, constructed, handlers, stdout, exit_code, groups>>

(***************************************************************************)
(* Specifications                                                          *)
(***************************************************************************)
\* a process that constructs instances, calls their operations and runs main
Init ==
    /\ literals \in LiteralInputs
    /\ self = PyNone
    /\ constructed = 0
    /\ handlers = 0
    /\ op = "none"
    /\ ret = PyNone
    /\ reports = <<>>
    /\ stdout = PyNone
    /\ exit_code = PyNone
    /\ groups = PyNone

Next ==
    \/ Construct
    \/ ValidateArchitecture
    \/ ValidateAccessibility
    \/ ValidateCodeQuality
    \/ ValidateHexColors
    \/ GetImplementedFeatures
    \/ GetPerformanceMetrics
    \/ GetDeploymentConfiguration
    \/ RunComprehensiveValidation
    \/ GenerateValidationReport
    \/ Main

Spec == Init /\ [][Next]_vars

\* validate_hex_colors on a constructed ColorScheme holding any of HexInputs
Constructed(lit) ==
    /\ literals = lit
    /\ self = NewInstance(lit)
    /\ constructed = 1
    /\ handlers = setup_logger(0)
    /\ op = "__init__"
    /\ ret = Return(PyNone)
    /\ reports = <<>>
    /\ stdout = PyNone
    /\ exit_code = PyNone

InitHex ==
    /\ \E scheme \in SchemesOver(HexInputs) :
           Constructed([color_scheme |-> scheme, tech_stack |-> ShippedTechStack])
    /\ groups = PyNone

NextHex == ValidateHexColors

SpecHex == InitHex /\ [][NextHex]_vars

\* the summary of run_comprehensive_validation over any check groups
ShippedGroups ==
    [g \in GroupNames |->
        CASE g = "architecture_compliance" ->
                 validate_architecture_compliance(NewInstance(ShippedLiterals)).value
          [] g = "accessibility_compliance" ->
                 validate_accessibility_compliance(NewInstance(ShippedLiterals)).value
          [] g = "code_quality" ->
                 validate_code_quality(NewInstance(ShippedLiterals)).value]

InitSummary ==
    /\ Constructed(ShippedLiterals)
    /\ groups \in GroupsInputs \cup {ShippedGroups}

NextSummary == SummarizeGroups

SpecSummary == InitSummary /\ [][NextSummary]_vars

(***************************************************************************)
(* Properties                                                              *)
(***************************************************************************)
\* '#' followed by exactly six hex digits and nothing else
ExactHexColor(s) ==
    /\ Len(s) = 7
    /\ s[1] = "#"
    /\ \A i \in 2..7 : s[i] \in {"0", "1", "2", "3", "4", "5", "6", "7", "8", "9",
                                 "A", "B", "C", "D", "E", "F",
                                 "a", "b", "c", "d", "e", "f"}

HexColorsReturned == op = "validate_hex_colors" /\ ret.kind = "return"

\* C1: validate_hex_colors emits a PASS check for a field if and only if its
\* value is exactly '#' and six hex digits, and a FAIL check for every other
\* string, a trailing newline included.
C1_PassIffExactHexColor ==
    HexColorsReturned =>
        \A i \in 1..5 :
            LET color == self.color_scheme[FieldOrder[i]].val
                status == ret.value.items[i].status
            IN  /\ status = PASS <=> ExactHexColor(color)
                /\ status = FAIL <=> ~ExactHexColor(color)

\* C10: validate_hex_colors returns exactly one check per colour field, five in
\* all, in the order primary, secondary, text, background, accent, whatever
\* mix of valid and invalid strings the fields hold, and the colour scheme
\* still holds the values it was constructed with.
C10_OneCheckPerFieldInOrder ==
    HexColorsReturned =>
        /\ Len(ret.value.items) = 5
        /\ \A i \in 1..5 :
               /\ IsValidationResult(ret.value.items[i])
               /\ ret.value.items[i].message.args[1] =
                      <<"primary", "secondary", "text", "background", "accent">>[i]
               /\ ret.value.items[i].message.args[2] = literals.color_scheme[FieldOrder[i]]
        /\ self.color_scheme = literals.color_scheme

\* C10 witness: the checks of a scheme mixing valid and invalid colours
C10_Witness ==
    /\ HexColorsReturned
    /\ Len(ret.value.items) = 5
    /\ ret.value.items[1].status = FAIL
    /\ ret.value.items[2].status = PASS
    /\ ret.value.items[5].status = FAIL

\* the summary carried by the value run_comprehensive_validation returned
Summarized ==
    /\ op = "run_comprehensive_validation"
    /\ ret.kind = "return"
    /\ HasKey(ret.value, "summary")
ReturnedSummary == DictGet(ret.value, "summary", PyDict(<<>>))
ReturnedTotal == DictGet(ReturnedSummary, "total_checks", PyNone).val
ReturnedPassed == DictGet(ReturnedSummary, "passed_checks", PyNone).val
ReturnedOverall == DictGet(ReturnedSummary, "overall_status", PyNone).val
ReturnedPassRate == DictGet(ReturnedSummary, "pass_rate", PyNone)
IsNotApplicable(v) == "val" \in DOMAIN v /\ v.val = "N/A"

\* the check groups handed to the summary, counted from the groups themselves
GroupSize(g) == Len(groups[g].items)
GroupPasses(g) ==
    Cardinality({i \in 1..Len(groups[g].items) : groups[g].items[i].value.status = PASS})
GroupsSize ==
    GroupSize("architecture_compliance") + GroupSize("accessibility_compliance")
        + GroupSize("code_quality")
GroupsPasses ==
    GroupPasses("architecture_compliance") + GroupPasses("accessibility_compliance")
        + GroupPasses("code_quality")

\* C2: in the summary, overall_status is PASS if and only if passed_checks
\* equals total_checks, is WARNING on any shortfall, and is never FAIL or INFO.
C2_OverallStatusPassIffAllPassed ==
    Summarized =>
        /\ ReturnedOverall = PASS <=> ReturnedPassed = ReturnedTotal
        /\ ReturnedPassed < ReturnedTotal => ReturnedOverall = WARNING
        /\ ReturnedOverall \notin {FAIL, INFO}

\* C2 witness: a summary with a shortfall, reported as WARNING
C2_Witness ==
    /\ Summarized
    /\ ReturnedPassed < ReturnedTotal
    /\ ReturnedOverall = WARNING

\* C3: when no check is counted (every group empty) the summary is produced
\* without the division and without an error, and pass_rate is "N/A".
C3_NoChecksGivesNotApplicable ==
    (op = "run_comprehensive_validation" /\ GroupsSize = 0) =>
        /\ Summarized
        /\ ~HasKey(ret.value, "error")
        /\ ReturnedTotal = 0
        /\ IsNotApplicable(ReturnedPassRate)

\* C3 witness: the summary of three empty groups
C3_Witness ==
    /\ Summarized
    /\ GroupsSize = 0
    /\ ReturnedTotal = 0
    /\ IsNotApplicable(ReturnedPassRate)

\* C9: total_checks is the sum of the sizes of the three check groups,
\* passed_checks the number of their checks with status PASS, with
\* 0 <= passed_checks <= total_checks; the shipped groups give 7 + 8 + 5 = 20.
C9_CountsMatchGroups ==
    Summarized =>
        /\ ReturnedTotal = GroupsSize
        /\ ReturnedPassed = GroupsPasses
        /\ 0 <= ReturnedPassed
        /\ ReturnedPassed <= ReturnedTotal
        /\ groups = ShippedGroups => ReturnedTotal = 7 + 8 + 5

\* C9 witness: groups holding passing and other checks, counted
C9_Witness ==
    /\ Summarized
    /\ GroupSize("architecture_compliance") > 0
    /\ GroupSize("code_quality") > 0
    /\ ReturnedTotal = 3
    /\ ReturnedPassed = 1

\* C4: with the shipped literal data run_comprehensive_validation produces a
\* summary with passed_checks = total_checks, every check of the three groups
\* has status PASS, and overall_status is PASS.
C4_ShippedDataAllPass ==
    (op = "run_comprehensive_validation" /\ literals = ShippedLiterals) =>
        /\ Summarized
        /\ ReturnedPassed = ReturnedTotal
        /\ ReturnedOverall = PASS
        /\ \A g \in GroupNames :
               LET checks == DictGet(ret.value, g, PyDict(<<>>)).items
               IN  /\ Len(checks) > 0
                   /\ \A i \in 1..Len(checks) :
                          /\ IsValidationResult(checks[i].value)
                          /\ checks[i].value.status = PASS

\* C4 witness: the summary of the shipped data, twenty of twenty
C4_Witness ==
    /\ Summarized
    /\ literals = ShippedLiterals
    /\ ReturnedTotal = 20
    /\ ReturnedPassed = 20
    /\ ReturnedOverall = PASS

\* what the literals make of the pipeline
ColoursAreStrings(cs) ==
    /\ IsColorScheme(cs)
    /\ \A f \in Fields : cs[f].type = "str"
TechStackIsStrings(ts) == \A i \in 1..Len(ts.items) : ts.items[i].type = "str"

\* the report text returned by generate_validation_report
ReportReturned == op = "generate_validation_report" /\ ret.kind = "return"
CheckLineFormat == "{result.status.value} {check}: {result.message}"
PerCheckLines(lines) == {j \in 1..Len(lines) : lines[j].fmt = CheckLineFormat}
LinesWith(lines, format) == {j \in 1..Len(lines) : lines[j].fmt = format}
TextContains(lines, v) ==
    \E j \in 1..Len(lines) : \E k \in 1..Len(lines[j].args) : lines[j].args[k] = v
\* every check of the three groups of the results has exactly one line
OneLinePerCheck(lines, results) ==
    \A g \in GroupNames :
        LET checks == DictGet(results, g, PyDict(<<>>)).items
        IN  \A i \in 1..Len(checks) :
                Cardinality({j \in PerCheckLines(lines) :
                                /\ lines[j].args[2] = Title(checks[i].key)
                                /\ lines[j].args[3] = checks[i].value.message
                                /\ lines[j].args[1] =
                                       PyStr(StatusValue(checks[i].value.status))}) = 1
CountedInSummary(results) ==
    DictGet(DictGet(results, "summary", PyDict(<<>>)), "total_checks", PyInt(0)).val

ReportCoversChecks(lines, results) ==
    /\ TextContains(lines, self.project_name)
    /\ TextContains(lines, self.version)
    /\ OneLinePerCheck(lines, results)
    /\ Cardinality(PerCheckLines(lines)) = CountedInSummary(results)

MainReturned == op = "main"
PrintedError == "fmt" \in DOMAIN stdout /\ stdout.fmt = "Validation failed: {str(e)}"
PrintedReport == "lines" \in DOMAIN stdout
PrintedOverall == stdout.lines[CHOOSE j \in LinesWith(stdout.lines, "Overall Status: {}") : TRUE].args[1]

\* C7 as stated: main returns 0 when the report is produced without an error,
\* and returns 1 with a printed error message whenever an error occurs anywhere
\* in the validation or formatting pipeline, a colour that is not a string
\* included.
C7_ExitOneOnAnyError ==
    MainReturned =>
        IF ColoursAreStrings(literals.color_scheme) /\ TechStackIsStrings(literals.tech_stack)
        THEN exit_code = PyInt(0) /\ PrintedReport
        ELSE exit_code = PyInt(1) /\ PrintedError

\* C7 amended: main returns 1 with a printed error message exactly when an
\* exception escapes generate_validation_report (the tech stack join raising
\* while the report is formatted); an error raised inside
\* run_comprehensive_validation is caught there, and main prints a report whose
\* overall status is the FAIL symbol and returns 0.
C7_ExitOneOnlyOnEscapingError ==
    MainReturned =>
        IF ColoursAreStrings(literals.color_scheme) /\ ~TechStackIsStrings(literals.tech_stack)
        THEN exit_code = PyInt(1) /\ PrintedError
        ELSE /\ exit_code = PyInt(0)
             /\ PrintedReport
             /\ (~ColoursAreStrings(literals.color_scheme)
                     => PrintedOverall = PyStr(StatusValue(FAIL)))

\* C7 witness: main returned 0 although a colour is not a string
C7_Witness ==
    /\ MainReturned
    /\ IsColorScheme(literals.color_scheme)
    /\ ~ColoursAreStrings(literals.color_scheme)
    /\ exit_code = PyInt(0)
    /\ PrintedReport

ValidationOps ==
    {"validate_architecture_compliance", "validate_accessibility_compliance",
     "validate_code_quality", "validate_hex_colors", "run_comprehensive_validation"}
\* the returned dict carries the failure: a ValidationResult with FAIL status
\* or, read generously, the FAIL status of the error dict
HoldsFailCheck(d) ==
    \E i \in 1..Len(d.items) :
        /\ "value" \in DOMAIN d.items[i]
        /\ \/ /\ IsValidationResult(d.items[i].value)
              /\ d.items[i].value.status = FAIL
           \/ d.items[i].value = PyEnum(FAIL)

\* a failure is raised inside the operation called last: the architecture
\* checks read the colours of a colour scheme that is none, the pattern match
\* meets a colour that is no string
FailureInside ==
    \/ op = "validate_architecture_compliance" /\ ~IsColorScheme(self.color_scheme)
    \/ op = "validate_hex_colors" /\ ~ColoursAreStrings(self.color_scheme)
    \/ op = "run_comprehensive_validation" /\ ~ColoursAreStrings(self.color_scheme)

\* C8: no failure propagates out of a validation operation as an exception;
\* a failure raised inside one is returned as a check with FAIL status.
C8_FailuresReturnedAsChecks ==
    op \in ValidationOps =>
        /\ ret.kind = "return"
        /\ (FailureInside => HoldsFailCheck(ret.value))

InstanceOps ==
    {"validate_architecture_compliance", "validate_accessibility_compliance",
     "validate_code_quality", "validate_hex_colors", "get_implemented_features",
     "get_performance_metrics", "get_deployment_configuration",
     "run_comprehensive_validation", "generate_validation_report"}

\* C11: after construction no call of a validation or reporting operation
\* (validate_*, get_*, run_comprehensive_validation, generate_validation_report)
\* changes the instance's project_name, version, tech_stack, color_scheme or
\* deployment_platform.
C11_OperationsKeepAttributes ==
    [][(constructed > 0 /\ op' \in InstanceOps) =>
           /\ self'.project_name = self.project_name
           /\ self'.version = self.version
           /\ self'.tech_stack = self.tech_stack
           /\ self'.color_scheme = self.color_scheme
           /\ self'.deployment_platform = self.deployment_platform]_vars

\* C11 witness: a report generated after other operations were called, the
\* instance still holding what the constructor assigned
C11_Witness ==
    /\ op = "generate_validation_report"
    /\ Len(reports) = 2
    /\ self.project_name = PyStr("MayDay Real Estate")
    /\ self.version = PyStr("1.1.0")
    /\ self.tech_stack = literals.tech_stack
    /\ self.color_scheme = literals.color_scheme
    /\ self.deployment_platform = PyStr("Vercel")

\* the colour checks carried by the returned results
ReturnedColorChecks == DictGet(ret.value, "color_scheme_validation", PyList(<<>>)).items

\* C12: the colour checks never enter the summary: for every colour scheme of
\* strings, valid or not, total_checks, passed_checks, pass_rate and
\* overall_status are those of the all-valid shipped scheme (20, 20, 100.0%,
\* PASS), also when color_scheme_validation holds FAIL checks.
C12_ColorChecksOutsideSummary ==
    (op = "run_comprehensive_validation" /\ ColoursAreStrings(self.color_scheme)) =>
        /\ Summarized
        /\ Len(ReturnedColorChecks) = 5
        /\ ReturnedTotal = 20
        /\ ReturnedPassed = 20
        /\ ReturnedOverall = PASS
        /\ ReturnedSummary =
               DictGet(run_comprehensive_validation(NewInstance(ShippedLiterals)).value,
                       "summary", PyDict(<<>>))

\* C12 witness: overall status PASS beside a FAIL colour check
C12_Witness ==
    /\ Summarized
    /\ ReturnedOverall = PASS
    /\ ReturnedPassed = ReturnedTotal
    /\ \E i \in 1..Len(ReturnedColorChecks) : ReturnedColorChecks[i].status = FAIL

\* C13: starting with no handler on the project's logger, after any number of
\* constructions the logger has exactly one handler; a second or later
\* construction adds none.
C13_OneHandler ==
    /\ constructed = 0 => handlers = 0
    /\ constructed > 0 => handlers = 1

\* C13 witness: two constructions, one handler
C13_Witness ==
    /\ constructed >= 2
    /\ handlers = 1

IsText(v, s) == v.type = "str" /\ "val" \in DOMAIN v /\ v.val = s
LineArg(lines, format) == lines[CHOOSE j \in LinesWith(lines, format) : TRUE].args[1]
ReadyFormat == "Ready for Production Deployment: {}"
OverallFormat == "Overall Status: {}"

\* C14: in every report the symbol on the 'Ready for Production Deployment'
\* line equals the symbol on the 'Overall Status' line; when the results carry
\* no summary (the error path of run_comprehensive_validation) both are the
\* FAIL symbol, project and version read 'Unknown', the counts and the pass
\* rate read 'N/A', and there is no per-check line.
C14_ReadyMatchesOverall ==
    ReportReturned =>
        LET lines == ret.value.lines
        IN  /\ Cardinality(LinesWith(lines, ReadyFormat)) = 1
            /\ Cardinality(LinesWith(lines, OverallFormat)) = 1
            /\ LineArg(lines, ReadyFormat) = LineArg(lines, OverallFormat)
            /\ HasKey(run_comprehensive_validation(self).value, "summary")
                   <=> ColoursAreStrings(self.color_scheme)
            /\ ~HasKey(run_comprehensive_validation(self).value, "summary") =>
                   /\ IsText(LineArg(lines, ReadyFormat), StatusValue(FAIL))
                   /\ IsText(LineArg(lines, OverallFormat), StatusValue(FAIL))
                   /\ IsText(LineArg(lines, "Project: {}"), "Unknown")
                   /\ IsText(LineArg(lines, "Version: {}"), "Unknown")
                   /\ IsText(LineArg(lines, "Total Checks: {}"), "N/A")
                   /\ IsText(LineArg(lines, "Passed Checks: {}"), "N/A")
                   /\ IsText(LineArg(lines, "Pass Rate: {}"), "N/A")
                   /\ PerCheckLines(lines) = {}

\* C14 witness: the report of the error path, a colour being no string
C14_Witness ==
    /\ ReportReturned
    /\ IsColorScheme(self.color_scheme)
    /\ ~ColoursAreStrings(self.color_scheme)
    /\ IsText(LineArg(ret.value.lines, ReadyFormat), StatusValue(FAIL))
    /\ IsText(LineArg(ret.value.lines, "Version: {}"), "Unknown")
    /\ PerCheckLines(ret.value.lines) = {}

====
